---- MODULE Spec2Model ----
(***************************************************************************)
(* Model of server/server.py of youtube-sync: a websocket server in which  *)
(* every connection runs the coroutine `counter`, joins a Guild (room)     *)
(* named in its path, and sends actions that mutate the Guild's queue and  *)
(* media state.  All coroutines run on one asyncio event loop: the code    *)
(* between two suspending awaits is one atomic step, and at a suspending   *)
(* await any other connection's coroutine may run.                         *)
(***************************************************************************)
EXTENDS Integers, Sequences, FiniteSets, TLC

\* ------------------------------------------------------------------ bounds
NumConns == 3          \* websocket connections that ever connect
NumClients == 2        \* of them, those that connect while the wall clock runs
MaxGuilds == 2         \* Guild objects alive at the same time
MaxQueue == 2          \* items a queue may hold (adds beyond it are not sent)
MaxNow == 2            \* wall clock stops after this many ticks
TicksPerSecond == 2    \* resolution of the modelled wall clock

Conns == 1..NumConns
Clients == 1..NumClients
Refs == 1..MaxGuilds
RoomIds == {"abc"}
NoRef == 0             \* a connection's `guild` before assignment

\* what the metadata resolver can return: title and length in seconds
Songs == {[title |-> "a", length |-> 1], [title |-> "b", length |-> 2]}
AddKeys == {{"query"}, {"video_id"}, {"video_id", "url"}, {}}
RemoveIndexes == (0 - (MaxQueue + 1))..(MaxQueue + 1)
JumpIndexes == {-1, 0, 1}
JumpTimes == {-1, 0, 1, 2}

\* set_profile: the keys it recognises, and the JSON values a request may
\* carry for them (a string, a number)
ProfileKeys == {"name", "identifier", "art"}
ProfileValues == {[type |-> "str", v |-> "x"], [type |-> "int", v |-> "7"]}
ProfileRequests ==
    UNION {[keys -> ProfileValues] : keys \in SUBSET ProfileKeys}

VARIABLES
    guilds,            \* the registry: room id -> Guild reference or None
    heap,              \* Guild reference -> Guild object
    pc,                \* connection -> where its coroutine is suspended
    guild,             \* connection -> local variable `guild` of counter
    guild_id,          \* connection -> local variable `guild_id` of counter
    play_immediately,  \* connection -> local variable of action_add
    now,               \* wall clock, in ticks
    appended,          \* connection -> where the item its action_add appended is
    played,            \* per Guild: tick and current_time of the last play
    sent               \* the error event being sent to a connection, if any

vars == <<guilds, heap, pc, guild, guild_id, play_immediately, appended, now, played,
          sent>>

Min(a, b) == IF a <= b THEN a ELSE b

\* ------------------------------------------------------------- Guild object
NewGuild(t) ==
    [users |-> <<>>,
     media_state |-> [current_time |-> 0, length |-> 0,
                      playing |-> FALSE, queue_index |-> -1],
     last_update_time |-> t,
     was_paused |-> FALSE,
     queue |-> <<>>]

Blank == NewGuild(0)
NoPlay == [at |-> -1, ct |-> -1]

\* Python list indexing: queue[i] for 0 <= i < len
QueueAt(q, i) == q[i + 1]

\* int((now - last_update_time).total_seconds())
ElapsedSeconds(G, t) == (t - G.last_update_time) \div TicksPerSecond

UpdateNoClamp(G, t) ==
    [G EXCEPT
       !.media_state.current_time =
           IF G.media_state.playing /\ ~G.was_paused
           THEN @ + ElapsedSeconds(G, t)
           ELSE @,
       !.was_paused = ~G.media_state.playing,
       !.last_update_time = t]

UpdateIgnoringPause(G, t) ==
    [G EXCEPT
       !.media_state.current_time =
           IF G.media_state.playing
           THEN Min(@ + ElapsedSeconds(G, t), G.media_state.length)
           ELSE @,
       !.was_paused = ~G.media_state.playing,
       !.last_update_time = t]

update_media_state_time(G, t) ==
    [G EXCEPT
       !.media_state.current_time =
           IF G.media_state.playing /\ ~G.was_paused
           THEN Min(@ + ElapsedSeconds(G, t), G.media_state.length)
           ELSE @,
       !.was_paused = ~G.media_state.playing,
       !.last_update_time = t]

\* notify_all awaits asyncio.wait only when the Guild has users
NotifyAlways(users) == TRUE

notify_all_suspends(users) == DOMAIN users # {}

ClearFinished(users) == [u \in DOMAIN users |-> [users[u] EXCEPT !.finished = FALSE]]

AllFinished(users) == \A u \in DOMAIN users : users[u].finished

\* ------------------------------------------------------------- action_jump
\* The outcome of action_jump on Guild G at tick t: the Guild afterwards and
\* the error event sent instead ("none" when the jump was applied).
JumpAbsolute(G, index, time, t) ==
    IF ~(0 <= index /\ index < Len(G.queue))
    THEN [G |-> G, err |-> "IndexError"]
    ELSE IF ~(0 <= time /\ time <= QueueAt(G.queue, index).length)
    THEN [G |-> G, err |-> "TimeLimitExceededError"]
    ELSE [G |-> update_media_state_time(
                  [G EXCEPT !.users = ClearFinished(G.users),
                            !.last_update_time = t,
                            !.media_state =
                                [current_time |-> time,
                                 length |-> QueueAt(G.queue, index).length,
                                 playing |-> TRUE,
                                 queue_index |-> index]], t),
          err |-> "none"]

action_jump(G, index, time, t) ==
    LET video_index == G.media_state.queue_index + index IN
    IF ~(0 <= video_index /\ video_index < Len(G.queue))
    THEN [G |-> G, err |-> "IndexError"]
    ELSE IF ~(0 <= time /\ time <= QueueAt(G.queue, video_index).length)
    THEN [G |-> G, err |-> "TimeLimitExceededError"]
    ELSE [G |-> update_media_state_time(
                  [G EXCEPT !.users = ClearFinished(G.users),
                            !.last_update_time = t,
                            !.media_state =
                                [current_time |-> time,
                                 length |-> QueueAt(G.queue, video_index).length,
                                 playing |-> TRUE,
                                 queue_index |-> video_index]], t),
          err |-> "none"]

\* del self.queue[index] with Python's negative indexing; the caller has
\* checked that index is in range
DelAt(q, index) ==
    LET i == IF index < 0 THEN index + Len(q) ELSE index IN
    [k \in 1..(Len(q) - 1) |-> IF k <= i THEN q[k] ELSE q[k + 1]]

InRange(q, index) == (0 - Len(q)) <= index /\ index < Len(q)

\* Where the item that was at position a of queue q is after `del q[index]`:
\* nowhere (NoIndex) if it is the item deleted
NoIndex == 0 - 1
Shifted(a, q, index) ==
    LET i == IF index < 0 THEN index + Len(q) ELSE index IN
    IF a = NoIndex \/ i > a THEN a
    ELSE IF i = a THEN NoIndex
    ELSE a - 1

\* ----------------------------------------------------------- memory model
\* A Guild object is alive while the registry or a running coroutine's local
\* variable refers to it; an object nothing refers to is reclaimed.
Referenced(gs, gl) ==
    ({gs[id] : id \in DOMAIN gs} \cup {gl[c] : c \in Conns}) \ {NoRef}

Reclaim(h, gs, gl) ==
    [r \in Refs |-> IF r \in Referenced(gs, gl) THEN h[r] ELSE Blank]

ReclaimPlayed(p, gs, gl) ==
    [r \in Refs |-> IF r \in Referenced(gs, gl) THEN p[r] ELSE NoPlay]

FreeRefs == Refs \ Referenced(guilds, guild)

\* error_event(error, message) on its way to connection c, in answer to its
\* request `action` ("connect" for the path of the connection itself)
Event(c, action, error) == [to |-> c, action |-> action, error |-> error]
NoEvent == Event(NoRef, "none", "none")

\* ------------------------------------------------------------------- Init
Init ==
    /\ guilds = <<>>
    /\ heap = [r \in Refs |-> Blank]
    /\ pc = [c \in Conns |-> "new"]
    /\ guild = [c \in Conns |-> NoRef]
    /\ guild_id = [c \in Conns |-> ""]
    /\ play_immediately = [c \in Conns |-> FALSE]
    /\ appended = [c \in Conns |-> NoIndex]
    /\ now = 0
    /\ played = [r \in Refs |-> NoPlay]
    /\ sent = NoEvent

\* The coroutine of connection c is at `where`, and no error event is on its
\* way (a handler that sends one does nothing after it, so nothing is lost
\* by letting the send complete before anything else runs)
Quiet == sent = NoEvent
At(c, where) == Quiet /\ pc[c] = where

\* The wall clock advances
Tick ==
    /\ Quiet
    /\ now < MaxNow
    /\ now' = now + 1
    /\ UNCHANGED <<guilds, heap, pc, guild, guild_id, play_immediately, appended, played, sent>>

\* ------------------------------------------------ counter: connect and join
\* Connections are interchangeable: they connect in the order of their numbers
MayConnect(c) == At(c, "new") /\ (IF c = 1 THEN TRUE ELSE pc[c - 1] # "new")

\* Guild.register up to its first await
register(G, c) == [G EXCEPT !.users = (c :> [finished |-> TRUE]) @@ @]

\* A path without "?guild=": GuildError, the coroutine returns
ConnectNoGuild(c) ==
    /\ MayConnect(c)
    /\ pc' = [pc EXCEPT ![c] = "closed"]
    /\ sent' = Event(c, "connect", "GuildError")
    /\ UNCHANGED <<guilds, heap, guild, guild_id, play_immediately, appended, now, played>>

\* Look the Guild up or create it, then register up to `await notify_all`
Connect(c, id) ==
    /\ MayConnect(c)
    /\ id \in DOMAIN guilds \/ FreeRefs # {}
    /\ LET known == id \in DOMAIN guilds
           ref == IF known THEN guilds[id]
                  ELSE CHOOSE r \in FreeRefs : \A q \in FreeRefs : r <= q
           G0 == IF known THEN heap[ref] ELSE NewGuild(now)
       IN /\ guilds' = IF known THEN guilds ELSE (id :> ref) @@ guilds
          /\ heap' = [heap EXCEPT ![ref] = register(G0, c)]
          /\ guild' = [guild EXCEPT ![c] = ref]
    /\ guild_id' = [guild_id EXCEPT ![c] = id]
    /\ pc' = [pc EXCEPT ![c] = "reg_notify"]
    /\ UNCHANGED <<play_immediately, appended, now, played, sent>>

\* ------------------------------------------------- counter: the finally block
\* `if not guild.users: guilds.pop(guild_id)` and the end of the coroutine, on
\* heap h.  Popping an id the registry no longer holds raises KeyError out of
\* the coroutine, which ends either way.
Evict(c, h) ==
    LET r == guild[c]
        empty == DOMAIN h[r].users = {}
        gs == IF empty /\ guild_id[c] \in DOMAIN guilds
              THEN [id \in DOMAIN guilds \ {guild_id[c]} |-> guilds[id]]
              ELSE guilds
        gl == [guild EXCEPT ![c] = NoRef]
    IN /\ guilds' = gs
       /\ guild' = gl
       /\ heap' = Reclaim(h, gs, gl)
       /\ played' = ReclaimPlayed(played, gs, gl)
       /\ pc' = [pc EXCEPT ![c] = "closed"]
       /\ UNCHANGED <<guild_id, play_immediately, appended, now, sent>>

\* Guild.unregister on heap h, then the eviction test unless notify_all suspends
Finally(c, h) ==
    LET r == guild[c]
        G1 == [h[r] EXCEPT !.users = [u \in DOMAIN @ \ {c} |-> @[u]]]
        h1 == [h EXCEPT ![r] = G1]
    IN IF notify_all_suspends(G1.users)
       THEN /\ heap' = h1
            /\ pc' = [pc EXCEPT ![c] = "unreg_notify"]
            /\ UNCHANGED <<guilds, guild, guild_id, play_immediately, appended, now, played, sent>>
       ELSE Evict(c, h1)

\* register after notify_all: the queue and state snapshots go to the new
\* connection; a send on a connection that closed meanwhile raises
RegisterResume(c, fail) ==
    /\ At(c, "reg_notify")
    /\ LET r == guild[c]
           h1 == [heap EXCEPT ![r] = update_media_state_time(heap[r], now)]
       IN CASE fail = "queue" -> Finally(c, heap)
            [] fail = "state" -> Finally(c, h1)
            [] OTHER ->
                 /\ heap' = h1
                 /\ pc' = [pc EXCEPT ![c] = "idle"]
                 /\ UNCHANGED <<guilds, guild, guild_id, play_immediately, appended, now, played, sent>>

\* The connection closes while the coroutine waits for a message
Unregister(c) ==
    /\ At(c, "idle")
    /\ Finally(c, heap)

\* unregister's notify_all has completed
UnregisterResume(c) ==
    /\ At(c, "unreg_notify")
    /\ Evict(c, heap)

\* ------------------------------------------------------- action handlers
\* Where a handler that ends in `await self.notify_all(...)` goes next
AfterNotify(G) == IF notify_all_suspends(G.users) THEN "notify" ELSE "idle"

\* A step of connection c's handler of `action`: the Guild becomes G, the
\* coroutine goes to next, and err ("none" for no error) is sent to c as an
\* error event
Handled(c, action, G, next, err) ==
    /\ heap' = [heap EXCEPT ![guild[c]] = G]
    /\ pc' = [pc EXCEPT ![c] = next]
    /\ sent' = IF err = "none" THEN sent ELSE Event(c, action, err)
    /\ UNCHANGED <<guilds, guild, guild_id, now>>

\* A message that is no JSON, has no action or an unknown one
BadMessage(c) ==
    /\ At(c, "idle")
    /\ Handled(c, "", heap[guild[c]], "idle", "RequestError")
    /\ UNCHANGED <<play_immediately, appended, played>>

\* action_play_pause
PlayPause(c, playing) ==
    /\ At(c, "idle")
    /\ LET G == heap[guild[c]]
           G1 == update_media_state_time(
                     [G EXCEPT !.media_state.playing = playing], now)
       IN /\ Handled(c, "play_pause", G1, AfterNotify(G1), "none")
          /\ played' = [played EXCEPT ![guild[c]] =
                           IF playing
                           THEN [at |-> now, ct |-> G1.media_state.current_time]
                           ELSE NoPlay]
    /\ UNCHANGED <<play_immediately, appended>>

\* The error event action_add ends with before it touches the Guild, "none"
\* when the resolver returned a song: keys are the keys of the request,
\* found whether the resolver found anything.
AddError(keys, found) ==
    IF "query" \notin keys /\ "video_id" \notin keys THEN "RequestError"
    ELSE IF "url" \in keys
         THEN IF "video_id" \in keys /\ found THEN "none" ELSE "InvalidVideoError"
         ELSE IF "query" \notin keys THEN "RequestError"
              ELSE IF found THEN "none" ELSE "Error"

\* action_add's play_immediately, computed on the reconciled Guild before the
\* append: "only if we're on last song and (internally) song has ended"
PlayAtSecondToLast(G) ==
    /\ G.media_state.queue_index = Len(G.queue) - 2
    /\ G.media_state.current_time = G.media_state.length

PlayIgnoringTime(G) ==
    G.media_state.queue_index = Len(G.queue) - 1

PlayImmediately(G) ==
    /\ G.media_state.queue_index = Len(G.queue) - 1
    /\ G.media_state.current_time = G.media_state.length

\* action_add up to `await self.notify_all(self.queue_event())`
Add(c, keys, found, song) ==
    /\ At(c, "idle")
    /\ LET G == heap[guild[c]]
           err == AddError(keys, found)
           G1 == update_media_state_time(G, now)
           G2 == [G1 EXCEPT !.queue = Append(@, song)]
       IN IF err # "none"
          THEN /\ Handled(c, "add", G, "idle", err)
               /\ UNCHANGED <<play_immediately, appended>>
          ELSE /\ Len(G.queue) < MaxQueue
               /\ Handled(c, "add", G2, "add_notify", "none")
               /\ play_immediately' = [play_immediately EXCEPT ![c] =
                                           PlayImmediately(G1)]
               /\ appended' = [appended EXCEPT ![c] = Len(G1.queue)]
    /\ UNCHANGED played

\* action_add after the queue broadcast: the jump to the next item
AddResume(c) ==
    /\ At(c, "add_notify")
    /\ LET G == heap[guild[c]]
           res == action_jump(G, 1, 0, now)
       IN IF ~play_immediately[c]
          THEN /\ Handled(c, "add", G, "idle", "none")
               /\ UNCHANGED played
          ELSE IF res.err # "none"
          THEN /\ Handled(c, "add", G, "idle", res.err)
               /\ UNCHANGED played
          ELSE /\ Handled(c, "add", res.G, AfterNotify(res.G), "none")
               /\ played' = [played EXCEPT ![guild[c]] = NoPlay]
    /\ play_immediately' = [play_immediately EXCEPT ![c] = FALSE]
    /\ appended' = [appended EXCEPT ![c] = NoIndex]

\* The outcome of action_remove on Guild G: the Guild afterwards and the
\* error event sent instead ("none" when the item was deleted).  The failed
\* `assert not index == 0` is reported by counter as a RequestError.
RemoveUnasserted(G, index) ==
    IF ~InRange(G.queue, index)
    THEN [G |-> G, err |-> "IndexError"]
    ELSE [G |-> [G EXCEPT !.queue = DelAt(@, index)], err |-> "none"]

action_remove(G, index) ==
    IF index = 0 THEN [G |-> G, err |-> "RequestError"]
    ELSE IF ~InRange(G.queue, index)
    THEN [G |-> G, err |-> "IndexError"]
    ELSE [G |-> [G EXCEPT !.queue = DelAt(@, index)], err |-> "none"]

\* action_remove as a client's request
Remove(c, index) ==
    /\ At(c, "idle")
    /\ LET res == action_remove(heap[guild[c]], index)
       IN IF res.err # "none"
          THEN /\ Handled(c, "remove", res.G, "idle", res.err)
               /\ UNCHANGED appended
          ELSE /\ Handled(c, "remove", res.G, AfterNotify(res.G), "none")
               /\ appended' = [d \in Conns |->
                      IF guild[d] = guild[c]
                      THEN Shifted(appended[d], heap[guild[c]].queue, index)
                      ELSE appended[d]]
    /\ UNCHANGED <<play_immediately, played>>

\* action_jump as a client's request
Jump(c, index, time) ==
    /\ At(c, "idle")
    /\ LET res == action_jump(heap[guild[c]], index, time, now)
       IN IF res.err # "none"
          THEN /\ Handled(c, "jump", res.G, "idle", res.err)
               /\ UNCHANGED played
          ELSE /\ Handled(c, "jump", res.G, AfterNotify(res.G), "none")
               /\ played' = [played EXCEPT ![guild[c]] = NoPlay]
    /\ UNCHANGED <<play_immediately, appended>>

\* action_mark_finished; its jump is called with websocket None, so a jump
\* that fails raises AttributeError, reported as the generic "Error"
MarkFinished(c) ==
    /\ At(c, "idle")
    /\ LET G == heap[guild[c]]
           G1 == [G EXCEPT !.users[c].finished = TRUE]
           G2 == [G1 EXCEPT !.users = ClearFinished(@)]
           res == action_jump(G2, 1, 0, now)
       IN IF ~AllFinished(G1.users)
          THEN /\ Handled(c, "finished", G1, "idle", "none")
               /\ UNCHANGED played
          ELSE IF G2.media_state.queue_index = Len(G2.queue) - 1
          THEN /\ Handled(c, "finished", G2, "idle", "none")
               /\ UNCHANGED played
          ELSE IF res.err # "none"
          THEN /\ Handled(c, "finished", G2, "idle", "Error")
               /\ UNCHANGED played
          ELSE /\ Handled(c, "finished", res.G, AfterNotify(res.G), "none")
               /\ played' = [played EXCEPT ![guild[c]] = NoPlay]
    /\ UNCHANGED <<play_immediately, appended>>

\* The outcome of action_set_profile for the member of connection c: each
\* recognised key is set to the request's value if the request has it and
\* popped otherwise; the values are not looked at (the only assertion is on
\* the key, a literal string)
action_set_profile(G, c, data) ==
    LET member == G.users[c]
        kept == DOMAIN member \ ProfileKeys
        set == DOMAIN data \cap ProfileKeys
    IN [G EXCEPT !.users[c] =
           [k \in kept \cup set |-> IF k \in set THEN data[k] ELSE member[k]]]

\* action_set_profile as a client's request
SetProfile(c, data) ==
    /\ At(c, "idle")
    /\ LET G1 == action_set_profile(heap[guild[c]], c, data)
       IN Handled(c, "set_profile", G1, AfterNotify(G1), "none")
    /\ UNCHANGED <<play_immediately, appended, played>>

\* A handler's last notify_all has completed: back to waiting for a message
NotifyDone(c) ==
    /\ At(c, "notify")
    /\ pc' = [pc EXCEPT ![c] = "idle"]
    /\ UNCHANGED <<guilds, heap, guild, guild_id, play_immediately, appended, now, played, sent>>

\* ------------------------------------------------------------------- Spec
\* Joining, leaving and the handlers that touch no queue, for the connections
\* in cs
Membership(cs) ==
    \/ \E c \in cs : ConnectNoGuild(c)
    \/ \E c \in cs, id \in RoomIds : Connect(c, id)
    \/ \E c \in cs, fail \in {"none", "queue", "state"} : RegisterResume(c, fail)
    \/ \E c \in cs : Unregister(c)
    \/ \E c \in cs : UnregisterResume(c)
    \/ \E c \in cs : BadMessage(c)
    \/ \E c \in cs, playing \in BOOLEAN : PlayPause(c, playing)
    \/ \E c \in cs : MarkFinished(c)
    \/ \E c \in cs : NotifyDone(c)

\* The handlers that change the queue or move in it
Playback(cs) ==
    \/ \E c \in cs, keys \in AddKeys, found \in BOOLEAN, song \in Songs :
           Add(c, keys, found, song)
    \/ \E c \in cs : AddResume(c)
    \/ \E c \in cs, index \in RemoveIndexes : Remove(c, index)
    \/ \E c \in cs, index \in JumpIndexes, time \in JumpTimes : Jump(c, index, time)

\* The error event has gone out
Deliver ==
    /\ sent # NoEvent
    /\ sent' = NoEvent
    /\ UNCHANGED <<guilds, heap, pc, guild, guild_id, play_immediately, appended, now, played>>

\* Two clients, every handler and the wall clock
Next == Deliver \/ Tick \/ Membership(Clients) \/ Playback(Clients)

Spec == Init /\ [][Next]_vars

\* Every connection joining and leaving, queues empty and the wall clock
\* standing still
NextLobby == Deliver \/ Membership(Conns)

SpecLobby == Init /\ [][NextLobby]_vars

\* Two clients joining, leaving and editing their profiles
Profile(cs) == \E c \in cs, data \in ProfileRequests : SetProfile(c, data)

NextProfile == Deliver \/ Membership(Clients) \/ Profile(Clients)

SpecProfile == Init /\ [][NextProfile]_vars

\* ----------------------------------------------------------------- claims
\* The Guild objects that exist: in the registry or held by a coroutine
Live == Referenced(guilds, guild)

\* The connections whose coroutine is suspended inside a handler, join or leave
InHandler == {"reg_notify", "notify", "add_notify", "unreg_notify"}

\* C1: in every room, if queue_index >= 0 then media_state.length is the
\* length of the queue item stored at queue[queue_index].
LengthMatchesQueue ==
    \A r \in Live :
        LET G == heap[r] IN
        G.media_state.queue_index >= 0 =>
            /\ G.media_state.queue_index < Len(G.queue)
            /\ G.media_state.length = QueueAt(G.queue, G.media_state.queue_index).length

\* C2: in every room, queue_index is -1 or a valid index into the queue.
QueueIndexValid ==
    \A r \in Live :
        LET G == heap[r] IN
        \/ G.media_state.queue_index = -1
        \/ /\ 0 <= G.media_state.queue_index
           /\ G.media_state.queue_index < Len(G.queue)

\* C3: in every room, 0 <= current_time <= length.
CurrentTimeInRange ==
    \A r \in Live :
        /\ 0 <= heap[r].media_state.current_time
        /\ heap[r].media_state.current_time <= heap[r].media_state.length

\* C3 witness: since a play, reconciliations have advanced current_time up to
\* the length of the item
CurrentTimeAtLength ==
    \E r \in Live :
        /\ heap[r].media_state.playing
        /\ played[r] # NoPlay
        /\ played[r].ct < heap[r].media_state.current_time
        /\ heap[r].media_state.current_time = heap[r].media_state.length
        /\ heap[r].last_update_time = now

\* C4: within one room at most one handler (action, join or leave) is in
\* progress at any time.
OneHandlerPerRoom ==
    \A r \in Live :
        Cardinality({c \in Conns : guild[c] = r /\ pc[c] \in InHandler}) <= 1

\* C5: a room with a member is in the registry, and every registered
\* connection is a member of the Room the registry holds for its room id.
MembersRoomRegistered ==
    /\ \A r \in Live :
           DOMAIN heap[r].users # {} => \E id \in DOMAIN guilds : guilds[id] = r
    /\ \A c \in Conns :
           (guild[c] # NoRef /\ c \in DOMAIN heap[guild[c]].users) =>
               /\ guild_id[c] \in DOMAIN guilds
               /\ guilds[guild_id[c]] = guild[c]

\* C6: the registry never holds a room without members where another
\* connection's code can run, and the step in which the only member of a room
\* leaves takes the room id out of the registry.
EmptyRoomEvicted ==
    /\ [](\A id \in DOMAIN guilds : DOMAIN heap[guilds[id]].users # {})
    /\ [][\A c \in Conns :
            (/\ guild[c] # NoRef
             /\ DOMAIN heap[guild[c]].users = {c}
             /\ pc[c] \in {"idle", "reg_notify"}
             /\ pc'[c] \notin {"idle", "reg_notify", "notify", "add_notify"})
            => guild_id[c] \notin DOMAIN guilds']_vars

\* C6 witness: the only member left and the registry is empty again
RoomGoneAfterLeave ==
    /\ DOMAIN guilds = {}
    /\ \E c \in Conns : pc[c] = "closed" /\ guild_id[c] \in RoomIds

\* C7: a mark_finished that does not complete unanimity changes no media
\* state; the one that completes it clears every finished flag and moves
\* queue_index to queue_index + 1, or leaves the media state unchanged when
\* queue_index is the last index.
FinishBarrier ==
    [][\A c \in Conns :
         MarkFinished(c) =>
             LET G == heap[guild[c]]
                 After == heap'[guild[c]]
                 G1 == [G EXCEPT !.users[c].finished = TRUE]
             IN IF ~AllFinished(G1.users)
                THEN After.media_state = G.media_state
                ELSE /\ \A u \in DOMAIN After.users : ~After.users[u].finished
                     /\ IF G.media_state.queue_index = Len(G.queue) - 1
                        THEN After.media_state = G.media_state
                        ELSE After.media_state.queue_index =
                                 G.media_state.queue_index + 1]_vars

\* C8: a jump by offset index with seek time `time`, whose target is in the
\* queue and whose time is within the target's length, leaves the media state
\* {current_time: time, length: the target's length, playing: true,
\* queue_index: the target} and every finished flag false.
RelativeJump ==
    [][\A c \in Conns, index \in JumpIndexes, time \in JumpTimes :
         (/\ pc[c] = "idle"
          /\ 0 <= heap[guild[c]].media_state.queue_index + index
          /\ heap[guild[c]].media_state.queue_index + index < Len(heap[guild[c]].queue)
          /\ 0 <= time
          /\ time <= QueueAt(heap[guild[c]].queue,
                             heap[guild[c]].media_state.queue_index + index).length
          /\ Jump(c, index, time))
         => LET G == heap[guild[c]]
                After == heap'[guild[c]]
                target == G.media_state.queue_index + index
            IN /\ After.media_state =
                      [current_time |-> time,
                       length |-> QueueAt(G.queue, target).length,
                       playing |-> TRUE,
                       queue_index |-> target]
               /\ \A u \in DOMAIN After.users : ~After.users[u].finished]_vars

\* C8 witness: a jump with a seek time landed beyond the first item (less than
\* a second has passed, so only a seek can have moved current_time)
JumpedWithSeek ==
    /\ now < TicksPerSecond
    /\ \E r \in Live :
           /\ heap[r].media_state.queue_index >= 1
           /\ heap[r].media_state.current_time >= 1
           /\ heap[r].media_state.playing
           /\ \A u \in DOMAIN heap[r].users : ~heap[r].users[u].finished

\* C9: while a room is paused, no step but a jump changes current_time: not
\* the passing of time, not a reconciliation, not the play that ends the pause.
Paused(r) == ~heap[r].media_state.playing /\ heap[r].was_paused

\* The step is a jump in room r: a client's, action_add's or mark_finished's
JumpIn(r) ==
    \E c \in Conns :
        /\ guild[c] = r
        /\ \/ \E index \in JumpIndexes, time \in JumpTimes : Jump(c, index, time)
           \/ AddResume(c)
           \/ MarkFinished(c)

ClockFrozenWhilePaused ==
    [][\A r \in Refs :
         (/\ r \in Live /\ r \in Live' /\ Paused(r)
          /\ heap'[r].media_state.current_time # heap[r].media_state.current_time)
         => JumpIn(r)]_vars

\* C9 witness: a room has been paused for a whole second, before the end of
\* its item
PausedForASecond ==
    \E r \in Live :
        /\ Paused(r)
        /\ heap[r].media_state.queue_index >= 0
        /\ heap[r].media_state.current_time < heap[r].media_state.length
        /\ now - heap[r].last_update_time >= TicksPerSecond

\* C10: a state read N whole seconds after a play at current_time = c reports
\* min(c + N, length), whatever reconciliations happened in between.
ClockAdvance ==
    \A r \in Live :
        (/\ played[r] # NoPlay
         /\ heap[r].last_update_time = now
         /\ (now - played[r].at) % TicksPerSecond = 0)
        => heap[r].media_state.current_time =
               Min(played[r].ct + (now - played[r].at) \div TicksPerSecond,
                   heap[r].media_state.length)

\* C11: a pause received by a room that has been playing reconciles the clock
\* first: the stored current_time is advanced by the whole seconds played since
\* the last reconciliation, clamped to length.
PauseKeepsTimePlayed ==
    [][\A c \in Conns :
         (/\ pc[c] = "idle"
          /\ heap[guild[c]].media_state.playing
          /\ ~heap[guild[c]].was_paused
          /\ PlayPause(c, FALSE))
         => heap'[guild[c]].media_state.current_time =
                Min(heap[guild[c]].media_state.current_time
                        + ElapsedSeconds(heap[guild[c]], now),
                    heap[guild[c]].media_state.length)]_vars

RemoveKeepsFirstItem ==
    [][\A c \in Conns, index \in RemoveIndexes :
         (pc[c] = "idle" /\ Remove(c, index))
         => LET q == heap[guild[c]].queue
                After == heap'[guild[c]].queue
            IN /\ Len(q) >= 1 => (Len(After) >= 1 /\ After[1] = q[1])
               /\ ~(1 <= index /\ index < Len(q))
                     => (After = q /\ sent' # NoEvent /\ sent'.to = c)]_vars

\* C14: an add into a room that is on its last item (or has none, queue_index
\* = -1) with current_time = length after reconciliation appends the item and
\* decides to play it; when the add then resumes on the room as it left it,
\* the media state becomes {current_time: 0, length: the appended item's,
\* playing: true, queue_index: the appended item's index}, every finished
\* flag is false and no error event is sent.
AddPlaysAtEndOfQueue ==
    [][\A c \in Conns :
         LET G == heap[guild[c]]
             G1 == update_media_state_time(G, now)
             After == heap'[guild[c]]
         IN /\ (/\ pc[c] = "idle"
                /\ G1.media_state.queue_index = Len(G.queue) - 1
                /\ G1.media_state.current_time = G1.media_state.length
                /\ \E keys \in AddKeys, song \in Songs :
                       AddError(keys, TRUE) = "none" /\ Add(c, keys, TRUE, song))
               => /\ pc'[c] = "add_notify"
                  /\ play_immediately'[c]
                  /\ Len(After.queue) = Len(G.queue) + 1
                  /\ appended'[c] = Len(After.queue) - 1
                  /\ After.media_state.queue_index = Len(After.queue) - 2
            /\ (/\ pc[c] = "add_notify"
                /\ play_immediately[c]
                /\ appended[c] = Len(G.queue) - 1
                /\ G.media_state.queue_index = Len(G.queue) - 2
                /\ AddResume(c))
               => /\ After.media_state =
                         [current_time |-> 0,
                          length |-> QueueAt(G.queue, appended[c]).length,
                          playing |-> TRUE,
                          queue_index |-> appended[c]]
                  /\ \A u \in DOMAIN After.users : ~After.users[u].finished
                  /\ sent' = NoEvent]_vars

\* C14 witness: the first add into a new room has appended its item and is
\* about to play it
FirstAddWillPlay ==
    \E c \in Conns :
        /\ pc[c] = "add_notify"
        /\ play_immediately[c]
        /\ appended[c] = 0
        /\ Len(heap[guild[c]].queue) = 1
        /\ heap[guild[c]].media_state.queue_index = -1

\* C15 as stated: add decides to play the new item exactly when, before the
\* append, queue_index = len(queue) - 2 and current_time = length; otherwise
\* add leaves the media state untouched.
AddTriggerSecondToLast ==
    [][\A c \in Conns :
         LET G == heap[guild[c]]
             G1 == update_media_state_time(G, now)
             After == heap'[guild[c]]
         IN (/\ pc[c] = "idle"
             /\ \E keys \in AddKeys, song \in Songs :
                    AddError(keys, TRUE) = "none" /\ Add(c, keys, TRUE, song))
            => /\ play_immediately'[c] <=>
                      /\ G1.media_state.queue_index = Len(G.queue) - 2
                      /\ G1.media_state.current_time = G1.media_state.length
               /\ ~play_immediately'[c] => After.media_state = G.media_state]_vars

\* C15 amended: add decides to play the new item exactly when, before the
\* append, queue_index = len(queue) - 1 and the reconciled current_time =
\* length; the add itself changes the media state by that reconciliation
\* only, and an add that decided not to play changes nothing when it resumes.
AddTriggerLast ==
    [][\A c \in Conns :
         LET G == heap[guild[c]]
             G1 == update_media_state_time(G, now)
             After == heap'[guild[c]]
         IN /\ (/\ pc[c] = "idle"
                /\ \E keys \in AddKeys, song \in Songs :
                       AddError(keys, TRUE) = "none" /\ Add(c, keys, TRUE, song))
               => /\ play_immediately'[c] <=>
                         /\ G.media_state.queue_index = Len(G.queue) - 1
                         /\ G1.media_state.current_time = G1.media_state.length
                  /\ After.media_state = G1.media_state
            /\ (pc[c] = "add_notify" /\ ~play_immediately[c] /\ AddResume(c))
               => heap' = heap /\ sent' = NoEvent]_vars

\* C15 witness: an add into a room on its last item, played to its end, has
\* appended a second item and is about to play it
AddAfterLastItemEnded ==
    \E c \in Conns :
        /\ pc[c] = "add_notify"
        /\ play_immediately[c]
        /\ appended[c] = 1
        /\ Len(heap[guild[c]].queue) = 2
        /\ heap[guild[c]].media_state.queue_index = 0
        /\ heap[guild[c]].media_state.length > 0

\* C16: an add carrying only video_id appends the item the lookup returns and
\* sends no error event, or, when the lookup fails, sends InvalidVideoError
\* to the requester alone and leaves the queue unchanged; an add carrying
\* only query appends the item the search returns.
AddByVideoId ==
    [][\A c \in Conns, found \in BOOLEAN, song \in Songs :
         LET q == heap[guild[c]].queue
             After == heap'[guild[c]].queue
         IN /\ (pc[c] = "idle" /\ Add(c, {"video_id"}, found, song))
               => IF found
                  THEN After = Append(q, song) /\ sent' = NoEvent
                  ELSE After = q /\ sent' = Event(c, "add", "InvalidVideoError")
            /\ (pc[c] = "idle" /\ Add(c, {"query"}, TRUE, song))
               => After = Append(q, song) /\ sent' = NoEvent]_vars

\* C17: a set_profile request with a value that is not a string is answered
\* with an error event to the requester and leaves the member unchanged; a
\* request with string values only sets each recognised key it carries,
\* clears each it does not, and changes nothing else of the member and no
\* other member.
ProfileValidated ==
    [][\A c \in Conns, data \in ProfileRequests :
         (pc[c] = "idle" /\ SetProfile(c, data))
         => LET member == heap[guild[c]].users[c]
                After == heap'[guild[c]].users
            IN IF \E k \in DOMAIN data : data[k].type # "str"
               THEN /\ sent' # NoEvent
                    /\ sent'.to = c
                    /\ After[c] = member
               ELSE /\ sent' = NoEvent
                    /\ \A k \in ProfileKeys :
                           IF k \in DOMAIN data
                           THEN k \in DOMAIN After[c] /\ After[c][k] = data[k]
                           ELSE k \notin DOMAIN After[c]
                    /\ After[c].finished = member.finished
                    /\ \A u \in DOMAIN After \ {c} :
                           After[u] = heap[guild[c]].users[u]]_vars

\* C18: a finished message never ends in an error event; when it completes
\* unanimity the room moves to queue_index + 1, a valid index, or, if there
\* is no next item, its media state is unchanged.
MarkFinishedNeverFails ==
    [][\A c \in Conns :
         (pc[c] = "idle" /\ MarkFinished(c))
         => LET G == heap[guild[c]]
                After == heap'[guild[c]]
                G1 == [G EXCEPT !.users[c].finished = TRUE]
            IN /\ sent' = NoEvent
               /\ AllFinished(G1.users) =>
                      \/ /\ After.media_state.queue_index =
                                G.media_state.queue_index + 1
                         /\ 0 <= After.media_state.queue_index
                         /\ After.media_state.queue_index < Len(After.queue)
                      \/ /\ G.media_state.queue_index + 1 >= Len(G.queue)
                         /\ After.media_state = G.media_state]_vars

\* C19: when an add that decided to play its item resumes after its queue
\* broadcast, whatever the other connections did meanwhile, its jump lands
\* on the item this add appended (if that item is still in the queue).
AddJumpsToAppended ==
    [][\A c \in Conns :
         (/\ pc[c] = "add_notify"
          /\ play_immediately[c]
          /\ appended[c] # NoIndex
          /\ AddResume(c))
         => heap'[guild[c]].media_state.queue_index = appended[c]]_vars

\* C20: the finish barrier does not stall on a departed member.  A room is
\* stalled when a member has left it, every remaining member (at least one)
\* is finished with the flags still set, a next queue item exists, and no
\* coroutine of the room has a step left to take: only a further client
\* message can move it.  The step that ends a leave never leaves the room
\* stalled.
Stalled(r) ==
    LET G == heap[r] IN
    /\ sent = NoEvent
    /\ DOMAIN G.users # {}
    /\ AllFinished(G.users)
    /\ 0 <= G.media_state.queue_index
    /\ G.media_state.queue_index + 1 < Len(G.queue)
    /\ \A c \in Conns : guild[c] = r => (pc[c] = "idle" /\ c \in DOMAIN G.users)
    /\ \E c \in Conns, id \in DOMAIN guilds :
           pc[c] = "closed" /\ guild_id[c] = id /\ guilds[id] = r

LeaveReleasesBarrier ==
    [][\A c \in Conns, r \in Refs :
         (pc[c] = "unreg_notify" /\ guild[c] = r /\ UnregisterResume(c))
         => ~Stalled(r)']_vars

====
